---- MODULE Spec2Model ----
(***************************************************************************)
(* ChapterPal conversational reader: the reading view of src/app/page.tsx  *)
(* (sentence segmentation, document upload, reveal cursor, double-tap      *)
(* recognizer, Q&A client).  Text is a sequence of one-character strings.  *)
(***************************************************************************)
EXTENDS Integers, Sequences, FiniteSets, TLC

\* ------------------------------------------------------------------ bounds
\* page.tsx:41 sets MAX_SENTENCES = 2200; the model scales the cap down to the
\* length of the built-in document, so that documents below, at and above
\* the cap are all uploaded.
MAX_SENTENCES == 8
\* Date.now() when the page is mounted (any value above the tap window).
StartTime == 1000
\* the clock stops advancing MaxElapsed time units after StartTime
MaxElapsed == 640
\* the conversation holds at most MaxMessages messages
MaxMessages == 2
\* ... and at most MaxThread messages when the Q&A client runs alone
MaxThread == 4

\* the position in a run of rapid taps up to which taps are counted
MaxRun == 4

\* the longest text the segmenter is given, in characters
MaxText == 4

\* --------------------------------------------------------------- constants
DOUBLE_TAP_WINDOW == 320

DEFAULT_EXCERPT ==
   <<
     "R", "e", "a", "s", "o", "n", "i", "n", "g", " ", "L", "a", "n", "g", "u", "a",
     "g", "e", " ", "M", "o", "d", "e", "l", "s", ":", " ", "A", " ", "B", "l", "u",
     "e", "p", "r", "i", "n", "t", " ", "e", "x", "a", "m", "i", "n", "e", "s", " ",
     "h", "o", "w", " ", "w", "e", " ", "b", "u", "i", "l", "d", " ", "a", "g", "e",
     "n", "t", "s", " ", "t", "h", "a", "t", " ", "t", "h", "i", "n", "k", ".", "\n",
     "\n", "P", "r", "o", "g", "r", "e", "s", "s", " ", "i", "n", " ", "r", "e", "a",
     "s", "o", "n", "i", "n", "g", " ", "r", "e", "q", "u", "i", "r", "e", "s", " ",
     "q", "u", "i", "e", "t", " ", "f", "o", "c", "u", "s", ".", " ", "R", "e", "a",
     "d", "i", "n", "g", " ", "e", "v", "e", "r", "y", "t", "h", "i", "n", "g", " ",
     "a", "t", " ", "o", "n", "c", "e", " ", "i", "s", " ", "o", "v", "e", "r", "w",
     "h", "e", "l", "m", "i", "n", "g", ",", " ", "s", "o", " ", "C", "h", "a", "p",
     "t", "e", "r", "P", "a", "l", " ", "o", "n", "l", "y", " ", "r", "e", "v", "e",
     "a", "l", "s", " ", "o", "n", "e", " ", "s", "e", "n", "t", "e", "n", "c", "e",
     " ", "a", "t", " ", "a", " ", "t", "i", "m", "e", ".", " ", "P", "a", "u", "s",
     "e", ",", " ", "i", "n", "s", "p", "e", "c", "t", ",", " ", "q", "u", "e", "s",
     "t", "i", "o", "n", ",", " ", "a", "n", "d", " ", "o", "n", "l", "y", " ", "t",
     "h", "e", "n", " ", "m", "o", "v", "e", " ", "f", "o", "r", "w", "a", "r", "d",
     ".", "\n", "\n", "D", "o", "u", "b", "l", "e", "-", "t", "a", "p", " ", "t", "h",
     "e", " ", "r", "i", "g", "h", "t", " ", "e", "d", "g", "e", " ", "t", "o", " ",
     "r", "e", "v", "e", "a", "l", " ", "n", "e", "w", " ", "s", "e", "n", "t", "e",
     "n", "c", "e", "s", ".", " ", "D", "o", "u", "b", "l", "e", "-", "t", "a", "p",
     " ", "t", "h", "e", " ", "l", "e", "f", "t", " ", "e", "d", "g", "e", " ", "w",
     "h", "e", "n", " ", "y", "o", "u", " ", "w", "a", "n", "t", " ", "t", "o", " ",
     "r", "e", "w", "i", "n", "d", " ", "a", "n", "d", " ", "r", "e", "c", "o", "n",
     "s", "i", "d", "e", "r", ".", " ", "A", "s", "k", " ", "G", "r", "o", "k", " ",
     "4", ".", "1", " ", "a", "n", "y", "t", "h", "i", "n", "g", " ", "a", "l", "o",
     "n", "g", " ", "t", "h", "e", " ", "w", "a", "y", " ", "a", "n", "d", " ", "t",
     "a", "p", " ", "o", "u", "t", "s", "i", "d", "e", " ", "t", "h", "e", " ", "Q",
     "&", "A", " ", "t", "o", " ", "f", "a", "l", "l", " ", "b", "a", "c", "k", " ",
     "i", "n", "t", "o", " ", "t", "h", "e", " ", "m", "a", "i", "n", " ", "t", "e",
     "x", "t", "."
   >>

\* ------------------------------------------------------------ text helpers
\* characters matched by \s in the regular expressions and removed by trim()
IsSpace(c) == c \in {" ", "\t", "\n", "\r", "\f"}

\* the class [.!?]
IsTerminator(c) == c \in {".", "!", "?"}

\* c belongs to a character class of the regular expressions
Matches(c, class) ==
  CASE class = "\\s" -> IsSpace(c)
    [] class = "[.!?]" -> IsTerminator(c)
    [] class = "[^.!?]" -> ~IsTerminator(c)
    [] class = "[^.]" -> c # "."

\* length of the longest prefix of s whose characters all belong to class
PrefixLen(s, class) ==
  CHOOSE k \in 0..Len(s) :
    /\ \A i \in 1..k : Matches(s[i], class)
    /\ (k = Len(s) \/ ~Matches(s[k + 1], class))

\* length of the longest suffix of s whose characters all belong to class
SuffixLen(s, class) ==
  CHOOSE k \in 0..Len(s) :
    /\ \A i \in (Len(s) - k + 1)..Len(s) : Matches(s[i], class)
    /\ (k = Len(s) \/ ~Matches(s[Len(s) - k], class))

\* String.prototype.trim
trim(s) ==
  LET a == PrefixLen(s, "\\s")
      b == SuffixLen(s, "\\s")
  IN  IF a = Len(s) THEN << >> ELSE SubSeq(s, a + 1, Len(s) - b)

\* raw.replace(/\s+/g, " ") on s[lo..hi]: a whitespace character that follows
\* another one is dropped, any other becomes a single space
RECURSIVE replaceWhitespaceIn(_, _, _)
replaceWhitespaceIn(s, lo, hi) ==
  IF lo > hi THEN << >>
  ELSE IF lo = hi
       THEN IF ~IsSpace(s[lo]) THEN << s[lo] >>
            ELSE IF lo > 1 /\ IsSpace(s[lo - 1]) THEN << >>
            ELSE << " " >>
  ELSE LET mid == (lo + hi) \div 2
       IN  replaceWhitespaceIn(s, lo, mid) \o replaceWhitespaceIn(s, mid + 1, hi)

replaceWhitespace(s) == replaceWhitespaceIn(s, 1, Len(s))

\* the match of /[^.!?]+[.!?]+|[^.!?]+$/ that starts at index i of s: the
\* maximal run of non-terminators from i, then the maximal run of terminators
\* (first alternative) or, when the first run reaches the end of the input,
\* nothing more (second alternative)
matchAt(s, i) ==
  LET rest == SubSeq(s, i, Len(s))
      a == PrefixLen(rest, "[^.!?]")
      b == PrefixLen(SubSeq(rest, a + 1, Len(rest)), "[.!?]")
  IN  SubSeq(rest, 1, a + b)

\* a match starts at every non-terminator that begins the input or follows a
\* terminator (terminators before the first match are skipped)
matchStartsAt(s, i) ==
  /\ ~IsTerminator(s[i])
  /\ (i = 1 \/ IsTerminator(s[i - 1]))

\* s.match(/[^.!?]+[.!?]+|[^.!?]+$/g) ?? [] : the matches that start in
\* s[lo..hi], left to right
RECURSIVE matchSentencesIn(_, _, _)
matchSentencesIn(s, lo, hi) ==
  IF lo > hi THEN << >>
  ELSE IF lo = hi
       THEN IF matchStartsAt(s, lo) THEN << matchAt(s, lo) >> ELSE << >>
  ELSE LET mid == (lo + hi) \div 2
       IN  matchSentencesIn(s, lo, mid) \o matchSentencesIn(s, mid + 1, hi)

matchSentences(s) == matchSentencesIn(s, 1, Len(s))

\* splitIntoSentences without the trim of each match
splitIntoSentencesUntrimmed(raw) ==
  matchSentences(trim(replaceWhitespace(raw)))

splitIntoSentences(raw) ==
  LET matches == matchSentences(trim(replaceWhitespace(raw)))
  IN  [i \in 1..Len(matches) |-> trim(matches[i])]

\* formatBytes: the number and its unit; above 1 KB the number is kept in
\* tenths, as toFixed(1) prints it
formatBytes(bytes) ==
  IF bytes = 0 THEN << 0, "B" >>
  ELSE IF bytes < 1024 THEN << bytes, "B" >>
  ELSE IF bytes < 1024 * 1024 THEN << (bytes * 10) \div 1024, "KB" >>
  ELSE IF bytes < 1024 * 1024 * 1024
       THEN << (bytes * 10) \div (1024 * 1024), "MB" >>
  ELSE << (bytes * 10) \div (1024 * 1024 * 1024), "GB" >>

\* name.replace(/\.[^.]+$/, ""): drop the last ".ext" when ext is non-empty
stripExtension(name) ==
  LET k == SuffixLen(name, "[^.]")
  IN  IF k >= 1 /\ k < Len(name) THEN SubSeq(name, 1, Len(name) - k - 1)
      ELSE name

\* ------------------------------------------------------------------ inputs
\* a text of n sentences "a?" separated by line breaks
SentenceText(n) == [i \in 1..(3 * n) |-> << "a", "?", "\n" >>[((i - 1) % 3) + 1]]

Stem(n) == [i \in 1..n |-> "x"]

\* The files the reader can pick.  text is what file.text() or the PDF
\* extraction yields; throws says how extraction ends: "none" (a text),
\* "Error" (rejects with an Error) or "other" (rejects with another value).
\* sentence counts of the text files: one sentence, the cap, and one above it
FileLengths == {1, MAX_SENTENCES, MAX_SENTENCES + 1}

TextFiles ==
  { [name   |-> Stem(n - 1) \o << ".", "t", "x", "t" >>,
     type   |-> IF n = 1 THEN "" ELSE "text/plain",
     size   |-> 3 * n,
     text   |-> SentenceText(n),
     throws |-> "none"] : n \in FileLengths }

BlankFile ==
  [name |-> << "b", ".", "m", "d" >>, type |-> "", size |-> 4,
   text |-> << " ", "?", "!", "\n" >>, throws |-> "none"]

CorruptPdf ==
  [name |-> << "c", ".", "P", "D", "F" >>, type |-> "", size |-> 2048,
   text |-> << >>, throws |-> "Error"]

BrokenPdf ==
  [name |-> << "k", ".", "p", "d", "f" >>, type |-> "application/pdf",
   size |-> 0, text |-> << >>, throws |-> "other"]

Files == TextFiles \cup {BlankFile, CorruptPdf, BrokenPdf}

\* what the reader can type into the composer
Questions == { << >>, << " ", "\n" >>, << "\n", "q", " " >> }

\* How a request to /api/ask can settle: fetch rejects ("throw"), or a
\* response arrives with a status (ok) and a body; parses says whether
\* response.json() resolves, and body is then the parsed object.  The bodies
\* are those of route.ts: { answer } with a text or an empty text, { error },
\* and a body that is not JSON when the request fails outside the handler; a
\* success body without an answer stands for a damaged one.
Responses ==
  { [kind |-> "throw", ok |-> FALSE, parses |-> FALSE, body |-> [x |-> 0]],
    [kind |-> "http", ok |-> TRUE, parses |-> TRUE, body |-> [answer |-> "A"]],
    [kind |-> "http", ok |-> TRUE, parses |-> TRUE, body |-> [answer |-> ""]],
    [kind |-> "http", ok |-> TRUE, parses |-> TRUE, body |-> [x |-> 0]],
    [kind |-> "http", ok |-> FALSE, parses |-> TRUE, body |-> [error |-> "E"]],
    [kind |-> "http", ok |-> FALSE, parses |-> FALSE, body |-> [x |-> 0]] }

Sides == {"left", "right"}

\* the clock advances by one of these between two events
Deltas == {160, 319}

\* ------------------------------------------------------------------- state
VARIABLES
  documentMeta,   \* useState<DocumentMeta>
  sentences,      \* useState: the sentence sequence of the current document
  revealed,       \* useState: the reveal cursor
  isParsing,      \* useState: an upload is being parsed
  uploadError,    \* useState: the upload error message, or "null"
  question,       \* useState: the composer's text
  chatOpen,       \* useState: the Q&A overlay is shown
  isAsking,       \* useState: the busy flag
  conversation,   \* useState<Message[]>
  touchTracker,   \* useRef: last tap time per side
  now,            \* Date.now()
  uploads,        \* handleFileChange calls suspended at `await extractText`
  pending,        \* handleAsk calls suspended at `await fetch`
  lastEvent,      \* the handler or event that ran last
  lastCommand,    \* the command the last tap emitted ("none" when it did not)
  lastTapAt,      \* time of the latest touchend event per side, NoTap if none
  lastResponse,   \* the outcome of the fetch that settled last
  tapRun,         \* position of the latest tap of each side in its rapid run
  server          \* the /api/ask handler: its position, request and response

vars ==
  << documentMeta, sentences, revealed, isParsing, uploadError, question,
     chatOpen, isAsking, conversation, touchTracker, now, uploads, pending,
     lastEvent, lastCommand, lastTapAt, lastResponse, tapRun, server >>

docVars == << documentMeta, sentences, revealed >>

uploadVars == << isParsing, uploadError, uploads >>

askVars ==
  << question, chatOpen, isAsking, conversation, pending, lastResponse >>

tapVars == << touchTracker, lastCommand, lastTapAt, tapRun >>

NoTap == -1

\* no fetch has settled yet
NoResponse ==
  [kind |-> "none", ok |-> FALSE, parses |-> FALSE, body |-> [x |-> 0]]

Init ==
  /\ documentMeta =
       [title     |-> << "Reasoning Language Models: A Blueprint" >>,
        byline    |-> << "Maciej Besta", "Julia Barth", "Eric Schreiber",
                         "Ales Kubicek", "more" >>,
        sentences |-> Len(splitIntoSentences(DEFAULT_EXCERPT))]
  /\ sentences = splitIntoSentences(DEFAULT_EXCERPT)
  /\ revealed = 1
  /\ isParsing = FALSE
  /\ uploadError = "null"
  /\ question = << >>
  /\ chatOpen = FALSE
  /\ isAsking = FALSE
  /\ conversation = << >>
  /\ touchTracker = [left |-> 0, right |-> 0]
  /\ now = StartTime
  /\ uploads = {}
  /\ pending = << >>
  /\ lastEvent = "mount"
  /\ lastCommand = "none"
  /\ lastTapAt = [s \in Sides |-> NoTap]
  /\ lastResponse = NoResponse
  /\ tapRun = [s \in Sides |-> 0]
  /\ server = [pc |-> "idle", request |-> [parses |-> FALSE, json |-> [t |-> "undefined"]],
               apiKey |-> [t |-> "undefined"], upstreamCalls |-> 0,
               prompt |-> << >>,
               upstream |-> [kind |-> "none", status |-> 0, parses |-> FALSE,
                             json |-> [t |-> "undefined"]],
               response |-> [status |-> 0, body |-> [none |-> TRUE]]]

\* ------------------------------------------------------------ reveal cursor
Min(a, b) == IF a <= b THEN a ELSE b

Max(a, b) == IF a >= b THEN a ELSE b

\* array.slice(0, n)
slice(seq, n) == SubSeq(seq, 1, Min(n, Len(seq)))

\* revealNext stopping one step late
revealNextLate(prev, n) == IF prev > n THEN prev ELSE prev + 1

\* revealNext without the clamp at n
revealNextUnclamped(prev, n) == prev + 1

\* revealNext skipping a sentence
revealNextSkipping(prev, n) == IF prev >= n THEN prev ELSE Min(prev + 2, n)

\* the updater of handleReveal, n being sentences.length
revealNext(prev, n) == IF prev >= n THEN prev ELSE prev + 1

\* unrevealNext without the clamp at 1
unrevealNextUnclamped(prev) == prev - 1

\* the updater of handleUnreveal
unrevealNext(prev) == IF prev > 1 THEN prev - 1 ELSE prev

handleReveal == revealed' = revealNext(revealed, Len(sentences))

handleUnreveal == revealed' = unrevealNext(revealed)

\* the reading surface taking pointer events whether or not the overlay is open
SurfaceReachableAlways == TRUE

\* The overlay shown while chatOpen is fixed, covers the viewport (inset-0)
\* and lies above the page (z-30): pointer events meant for the reading
\* surface land on it.
SurfaceReachable == ~chatOpen

\* onDoubleClick of the left / right half of the reading surface
DoubleClick(side) ==
  /\ SurfaceReachable
  /\ IF side = "right" THEN handleReveal ELSE handleUnreveal
  /\ UNCHANGED server
  /\ lastEvent' = IF side = "right" THEN "doubleClickRight"
                  ELSE "doubleClickLeft"
  /\ UNCHANGED << documentMeta, sentences, uploadVars, askVars, tapVars, now >>

\* ------------------------------------------------------- gesture recognizer
\* time passes between two events
Tick ==
  /\ \E d \in Deltas :
       /\ now + d <= StartTime + MaxElapsed
       /\ now' = now + d
  /\ UNCHANGED server
  /\ lastEvent' = "tick"
  /\ UNCHANGED << docVars, uploadVars, askVars, tapVars >>

\* touchTracker.current[side]
lastTapOf(tracker, side) == tracker[side]

\* isDoubleTap with the window's end included
isDoubleTapInclusive(t, lastTap) == t - lastTap <= DOUBLE_TAP_WINDOW

\* now - lastTap < DOUBLE_TAP_WINDOW
isDoubleTap(t, lastTap) == t - lastTap < DOUBLE_TAP_WINDOW

\* recordTap writing one time for both sides
recordTapBothSides(tracker, side, t) == [s \in Sides |-> t]

\* touchTracker.current[side] = now
\* recordTap forgetting the side's taps once two of them made a double tap
recordTapResetting(tracker, side, t) ==
  IF t - tracker[side] < DOUBLE_TAP_WINDOW
  THEN [tracker EXCEPT ![side] = 0]
  ELSE [tracker EXCEPT ![side] = t]

\* touchTracker.current[side] = now
recordTap(tracker, side, t) == [tracker EXCEPT ![side] = t]

\* the position a touchend at time t takes in the side's run of rapid taps:
\* one more than its predecessor's when that came less than the window
\* before, counted up to MaxRun, and 1 when it starts a run
runPosition(side, t) ==
  IF lastTapAt[side] # NoTap /\ t - lastTapAt[side] < DOUBLE_TAP_WINDOW
  THEN Min(tapRun[side] + 1, MaxRun)
  ELSE 1

CommandOf(side) == IF side = "right" THEN "reveal" ELSE "unreveal"

\* onTouchEnd of the left / right half of the reading surface
handleTouch(side) ==
  /\ SurfaceReachable
  /\ LET lastTap == lastTapOf(touchTracker, side)
     IN  IF isDoubleTap(now, lastTap)
         THEN /\ IF side = "right" THEN handleReveal ELSE handleUnreveal
              /\ lastCommand' = CommandOf(side)
         ELSE /\ revealed' = revealed
              /\ lastCommand' = "none"
  /\ touchTracker' = recordTap(touchTracker, side, now)
  /\ lastTapAt' = [lastTapAt EXCEPT ![side] = now]
  /\ tapRun' = [tapRun EXCEPT ![side] = runPosition(side, now)]
  /\ UNCHANGED server
  /\ lastEvent' = IF side = "right" THEN "touchRight" ELSE "touchLeft"
  /\ UNCHANGED << documentMeta, sentences, uploadVars, askVars, now >>

\* ---------------------------------------------------------------- ingestion
\* the sentence sequence handleFileChange builds from the extracted text
nextSentencesOf(rawText) ==
  LET clean == trim(replaceWhitespace(rawText))
  IN  slice(splitIntoSentences(clean), MAX_SENTENCES)

\* truncatedOf true only above the cap
truncatedOfStrict(nextSentences) == Len(nextSentences) > MAX_SENTENCES

\* truncated: nextSentences.length >= MAX_SENTENCES
truncatedOf(nextSentences) == Len(nextSentences) >= MAX_SENTENCES

\* the DocumentMeta handleFileChange sets for a parsed file
documentMetaOf(file, nextSentences) ==
  [title     |-> IF stripExtension(file.name) = << >>
                 THEN << "Untitled document" >>
                 ELSE stripExtension(file.name),
   byline    |-> << formatBytes(file.size),
                    IF file.type = "" THEN "Unknown type" ELSE file.type >>,
   sentences |-> Len(nextSentences),
   filename  |-> file.name,
   truncated |-> truncatedOf(nextSentences)]

\* the message handleFileChange's catch block shows
uploadErrorOf(file) ==
  IF file.throws = "Error" THEN "Invalid PDF structure."
  ELSE IF file.throws = "other"
       THEN "Unexpected error while parsing that file."
  ELSE "I couldn't find readable sentences in that file."

\* handleFileChange up to `await extractText(file)`; files is
\* event.target.files
handleFileChange(files) ==
  /\ IF files = << >>
     THEN UNCHANGED uploadVars
     ELSE /\ uploadError' = "null"
          /\ isParsing' = TRUE
          /\ uploads' = uploads \cup {files[1]}
  /\ UNCHANGED server
  /\ lastEvent' = "handleFileChange"
  /\ UNCHANGED << docVars, askVars, tapVars, now >>

\* the file input never disabled
fileInputDisabledNever == FALSE

\* disabled={isParsing}
fileInputDisabled == isParsing

\* a change event of the file input, which is disabled while isParsing
PickFile ==
  /\ ~fileInputDisabled
  /\ \E files \in {<< >>} \cup {<< f >> : f \in Files} : handleFileChange(files)

\* parsed accepting a document without sentences
parsedAcceptingEmpty(file, nextSentences) == file.throws = "none"

\* the try block reaches setSentences: extractText resolved and
\* nextSentences.length is not 0
parsed(file, nextSentences) ==
  file.throws = "none" /\ Len(nextSentences) # 0

\* loadDocument leaving the cursor where it was
loadDocumentKeepingCursor(file, nextSentences) ==
  /\ sentences' = nextSentences
  /\ revealed' = revealed
  /\ documentMeta' = documentMetaOf(file, nextSentences)

\* setSentences, setRevealed(1), setDocumentMeta
loadDocument(file, nextSentences) ==
  /\ sentences' = nextSentences
  /\ revealed' = 1
  /\ documentMeta' = documentMetaOf(file, nextSentences)

\* handleFileChange from the point extractText(file) settles to its end
extractTextSettled(file) ==
  /\ file \in uploads
  /\ LET nextSentences == nextSentencesOf(file.text)
     IN  IF parsed(file, nextSentences)
         THEN /\ loadDocument(file, nextSentences)
              /\ uploadError' = uploadError
         ELSE /\ uploadError' = uploadErrorOf(file)
              /\ UNCHANGED docVars
  /\ isParsing' = FALSE
  /\ uploads' = uploads \ {file}
  /\ UNCHANGED server
  /\ lastEvent' = "extractTextSettled"
  /\ UNCHANGED << askVars, tapVars, now >>

\* --------------------------------------------------------------- Q&A client
\* array.join(" ")
RECURSIVE join(_)
join(seq) ==
  IF seq = << >> THEN << >>
  ELSE IF Len(seq) = 1 THEN seq[1]
  ELSE seq[1] \o << " " >> \o join(Tail(seq))

\* revealedSentences taking the whole document
revealedSentencesAll == sentences

\* sentences.slice(0, revealed)
revealedSentences == slice(sentences, revealed)

\* a || b on strings: the first operand unless it is empty or undefined
Or(a, b) == IF a # "" THEN a ELSE b

\* object[field], "" standing for undefined
Get(object, field) == IF field \in DOMAIN object THEN object[field] ELSE ""

\* appendTo overwriting the last Message
appendToReplacingLast(prev, message) ==
  IF prev = << >> THEN << message >>
  ELSE SubSeq(prev, 1, Len(prev) - 1) \o << message >>

\* appendTo putting the new Message first
appendToFront(prev, message) == << message >> \o prev

\* [...prev, message]
appendTo(prev, message) == prev \o << message >>

Message(role, content) ==
  [id |-> Len(conversation) + 1, role |-> role, content |-> content,
   timestamp |-> now]

\* assistantContent without the client-side prefix
assistantContentUnprefixed(response) ==
  IF response.kind = "throw" THEN << "Failed to fetch" >>
  ELSE IF ~response.ok
       THEN << Or(IF response.parses
                  THEN Get(response.body, "error") ELSE "",
                  "Grok declined to answer.") >>
  ELSE IF ~response.parses THEN << "Unexpected end of JSON input" >>
  ELSE << Or(Get(response.body, "answer"),
             Or(Get(response.body, "message"),
                "Grok 4.1 responded, but the payload was empty.")) >>

\* the content of the assistant Message for a settled request
assistantContent(response) ==
  LET failure(message) == << "I couldn't reach Grok 4.1. ", message >>
  IN  IF response.kind = "throw" THEN failure("Failed to fetch")
      ELSE IF ~response.ok
           THEN failure(Or(IF response.parses
                           THEN Get(response.body, "error") ELSE "",
                           "Grok declined to answer."))
      ELSE IF ~response.parses THEN failure("Unexpected end of JSON input")
      ELSE << Or(Get(response.body, "answer"),
                 Or(Get(response.body, "message"),
                    "Grok 4.1 responded, but the payload was empty.")) >>

\* isBlank without the trim
isBlankUntrimmed(text) == text = << >>

\* !question.trim()
isBlank(text) == trim(text) = << >>

\* handleAsk up to `await fetch("/api/ask", ...)`
handleAsk ==
  /\ IF isBlank(question)
     THEN UNCHANGED askVars
     ELSE LET userMessage == Message("user", trim(question))
          IN  /\ conversation' = appendTo(conversation, userMessage)
              /\ question' = << >>
              /\ chatOpen' = TRUE
              /\ isAsking' = TRUE
              /\ pending' = Append(pending,
                                   [userMessage |-> userMessage,
                                    question |-> userMessage.content,
                                    context  |-> join(revealedSentences)])
              /\ UNCHANGED lastResponse
  /\ UNCHANGED server
  /\ lastEvent' = "handleAsk"
  /\ UNCHANGED << docVars, uploadVars, tapVars, now >>

\* every pending request and the new one fit into a conversation of at most
\* cap messages
RoomFor(cap) == Len(conversation) + Len(pending) + 2 <= cap

RoomToAsk == RoomFor(MaxMessages)

\* the Send button is disabled while isAsking or the question is blank
\* the Send button disabled by an empty composer only
sendDisabledWhenBlank == trim(question) = << >>

\* disabled={isAsking || !question.trim()}
sendDisabled == isAsking \/ trim(question) = << >>

\* a click on Send while the conversation has room for cap messages
ClickSendUpTo(cap) ==
  /\ ~sendDisabled
  /\ RoomFor(cap)
  /\ handleAsk

ClickSend == ClickSendUpTo(MaxMessages)

ClickSendThread == ClickSendUpTo(MaxThread)

\* a submit event dispatched on the form itself (form.requestSubmit())
SubmitForm ==
  /\ trim(question) = << >> \/ RoomToAsk
  /\ handleAsk

\* onChange of the composer
setQuestion(text) ==
  /\ question' = text
  /\ UNCHANGED server
  /\ lastEvent' = "setQuestion"
  /\ UNCHANGED << docVars, uploadVars, tapVars, now, chatOpen, isAsking,
                  conversation, pending, lastResponse >>

TypeQuestion == \E text \in Questions : setQuestion(text)

\* the busy flag cleared at the end of the try block only
isAskingAfterTry(response) == response.kind = "throw"

\* finally { setIsAsking(false) }
isAskingAfter(response) == FALSE

\* handleAsk from the point the i-th pending fetch settles to its end
fetchSettled(i, response) ==
  /\ i \in 1..Len(pending)
  /\ conversation' =
       appendTo(conversation, Message("assistant", assistantContent(response)))
  /\ isAsking' = isAskingAfter(response)
  /\ pending' = SubSeq(pending, 1, i - 1) \o SubSeq(pending, i + 1, Len(pending))
  /\ UNCHANGED server
  /\ lastEvent' = "fetchSettled"
  /\ lastResponse' = response
  /\ UNCHANGED << docVars, uploadVars, tapVars, now, question, chatOpen >>

\* a click on the overlay or on its Close button
closeChat ==
  /\ chatOpen
  /\ chatOpen' = FALSE
  /\ UNCHANGED server
  /\ lastEvent' = "closeChat"
  /\ UNCHANGED << docVars, uploadVars, tapVars, now, question, isAsking,
                  conversation, pending, lastResponse >>

\* ---------------------------------------------------- the /api/ask backend
\* JSON values, tagged with what typeof and Array.isArray tell about them;
\* a string is the sequence of its characters
Undefined == [t |-> "undefined"]

Null == [t |-> "null"]

Str(s) == [t |-> "string", s |-> s]

Num(n) == [t |-> "number", n |-> n]

Arr(items) == [t |-> "array", items |-> items]

Obj(fields) == [t |-> "object", fields |-> fields]

\* value?.key
prop(value, key) ==
  IF value.t = "object" /\ key \in DOMAIN value.fields
  THEN value.fields[key]
  ELSE Undefined

\* value?.[0]
first(value) ==
  IF value.t = "array" /\ value.items # << >> THEN value.items[1]
  ELSE IF value.t = "string" /\ value.s # << >> THEN Str(<< value.s[1] >>)
  ELSE Undefined

\* a ?? b
Nullish(a, b) == IF a.t \in {"undefined", "null"} THEN b ELSE a

\* the string Array.prototype.join makes of one element
toJoinString(value) ==
  CASE value.t \in {"undefined", "null"} -> << >>
    [] value.t = "string" -> value.s
    [] value.t = "number" -> << ToString(value.n) >>
    [] value.t = "object" -> << "[object Object]" >>

\* array.join(separator), the separator one character
RECURSIVE joinWith(_, _)
joinWith(items, separator) ==
  IF items = << >> THEN << >>
  ELSE IF Len(items) = 1 THEN toJoinString(items[1])
  ELSE toJoinString(items[1]) \o << separator >>
         \o joinWith(Tail(items), separator)

\* array.map((chunk) => chunk?.text ?? "")
chunkTexts(items) ==
  [i \in 1..Len(items) |-> Nullish(prop(items[i], "text"), Str(<< >>))]

\* normalizeGrokResponse trying output_text before choices and output
normalizeGrokResponseOutputTextFirst(data) ==
  LET primary == prop(prop(first(prop(data, "choices")), "message"), "content")
      outputBlocks == prop(first(prop(data, "output")), "content")
      outputText == prop(data, "output_text")
  IN  IF outputText.t = "array" THEN joinWith(outputText.items, "\n")
      ELSE IF outputText.t = "string" THEN outputText.s
      ELSE IF primary.t = "string" THEN primary.s
      ELSE IF primary.t = "array"
           THEN joinWith(chunkTexts(primary.items), "\n")
      ELSE IF outputBlocks.t = "array"
           THEN joinWith(chunkTexts(outputBlocks.items), "\n")
      ELSE << "Grok responded without readable text." >>

\* normalizeGrokResponse once the body is parsed
normalizeGrokResponse(data) ==
  LET primary == prop(prop(first(prop(data, "choices")), "message"), "content")
      outputBlocks == prop(first(prop(data, "output")), "content")
      outputText == prop(data, "output_text")
  IN  IF primary.t = "string" THEN primary.s
      ELSE IF primary.t = "array"
           THEN joinWith(chunkTexts(primary.items), "\n")
      ELSE IF outputBlocks.t = "array"
           THEN joinWith(chunkTexts(outputBlocks.items), "\n")
      ELSE IF outputText.t = "array" THEN joinWith(outputText.items, "\n")
      ELSE IF outputText.t = "string" THEN outputText.s
      ELSE << "Grok responded without readable text." >>

FALLBACK_MESSAGE ==
  << "Set the GROK_API_KEY environment variable to proxy questions to Grok 4.1. You're seeing a local demo response instead." >>

\* an object with the fields that are given a value
Fields(all) ==
  Obj([k \in { f \in DOMAIN all : all[f].t # "undefined" } |-> all[k]])

Chunk(text) == Fields([text |-> text])

\* the values of choices[0].message.content the upstream bodies carry
Contents ==
  { Undefined,
    Str(<< "X" >>),
    Str(<< >>),
    Arr(<< Chunk(Str(<< "A" >>)), Chunk(Str(<< "B" >>)) >>),
    Arr(<< Chunk(Str(<< "A" >>)), Chunk(Undefined), Chunk(Null) >>),
    Arr(<< >>),
    Chunk(Str(<< "A" >>)) }

\* the upstream bodies: every combination of the recognized fields
GrokBodies ==
  { Fields([choices |-> choices, output |-> output, output_text |-> outputText]) :
      choices \in { Undefined, Arr(<< >>) }
                    \cup { Arr(<< Fields([message |-> Fields([content |-> c])]) >>) :
                             c \in Contents },
      output \in { Undefined,
                   Arr(<< Fields([content |->
                            Arr(<< Chunk(Str(<< "C" >>)),
                                   Chunk(Str(<< "D" >>)) >>)]) >>),
                   Arr(<< Fields([content |-> Str(<< "S" >>)]) >>) },
      outputText \in { Undefined,
                       Str(<< "T" >>),
                       Arr(<< Str(<< "E" >>), Str(<< "F" >>) >>) } }

\* what the fetch to api.x.ai settles with: a network error or a response
UpstreamResults ==
  { [kind |-> "throw", status |-> 0, parses |-> FALSE, json |-> Undefined],
    [kind |-> "http", status |-> 401, parses |-> TRUE,
     json |-> Fields([error |-> Str(<< "E" >>)])],
    [kind |-> "http", status |-> 503, parses |-> TRUE,
     json |-> Fields([error |-> Undefined])],
    [kind |-> "http", status |-> 502, parses |-> FALSE, json |-> Undefined],
    [kind |-> "http", status |-> 200, parses |-> FALSE, json |-> Undefined] }
  \cup { [kind |-> "http", status |-> 200, parses |-> TRUE, json |-> data] :
           data \in GrokBodies }

\* the bodies a POST to /api/ask carries
RequestBodies ==
  { [parses |-> FALSE, json |-> Undefined] }
  \cup { [parses |-> TRUE, json |-> value] :
           value \in { Null,
                      Str(<< "q" >>),
                      Fields([question |-> Undefined]),
                      Fields([question |-> Null]),
                      Fields([question |-> Str(<< >>)]),
                      Fields([question |-> Str(<< " ", "\n" >>)]),
                      Fields([question |-> Str(<< "q" >>)]),
                      Fields([question |-> Str(<< " ", "q" >>),
                              context |-> Str(<< "c" >>)]),
                      Fields([question |-> Num(5)]) } }

\* process.env.GROK_API_KEY: unset, set to the empty string, set
ApiKeys == { Undefined, Str(<< >>), Str(<< "k" >>) }

\* response.ok
ok(status) == status \in 200..299

\* !value
Not(value) ==
  \/ value.t \in {"undefined", "null"}
  \/ value.t = "string" /\ value.s = << >>
  \/ value.t = "number" /\ value.n = 0

\* NextResponse.json(body, { status })
json(body, status) == [status |-> status, body |-> body]

\* no response has been sent
NoAnswer == json([none |-> TRUE], 0)

\* the upstream fetch has not settled
NoUpstream ==
  [kind |-> "none", status |-> 0, parses |-> FALSE, json |-> Undefined]

\* the handler with the question not validated
invalidNever(theQuestion) == FALSE

\* !question?.trim() where it evaluates
invalid(theQuestion) ==
  \/ theQuestion.t \in {"undefined", "null"}
  \/ theQuestion.t = "string" /\ trim(theQuestion.s) = << >>

\* question?.trim() throws: the value has no trim method
trimThrows(theQuestion) ==
  theQuestion.t \notin {"undefined", "null", "string"}

\* the credential test skipped
missingNever(apiKey) == FALSE

\* !apiKey
missing(apiKey) == Not(apiKey)

\* the user message sent upstream
promptOf(theQuestion, theContext) ==
  << "Excerpt:\n" >>
    \o (IF Not(theContext) THEN << "No excerpt provided." >>
        ELSE toJoinString(theContext))
    \o << "\n\nQuestion: " >> \o toJoinString(theQuestion)

\* POST up to its first response, fault or await of the upstream fetch
POST(request, apiKey) ==
  /\ server.pc # "awaitUpstream"
  /\ LET body == request.json
         theQuestion == prop(body, "question")
         theContext == prop(body, "context")
         received == [server EXCEPT !.request = request, !.apiKey = apiKey,
                                    !.upstreamCalls = 0, !.prompt = << >>,
                                    !.upstream = NoUpstream,
                                    !.response = NoAnswer]
     IN  server' =
           IF ~request.parses \/ body.t \in {"undefined", "null"}
           THEN [received EXCEPT !.pc = "faulted"]
           ELSE IF trimThrows(theQuestion)
           THEN [received EXCEPT !.pc = "faulted"]
           ELSE IF invalid(theQuestion)
           THEN [received EXCEPT
                   !.pc = "responded",
                   !.response =
                     json([error |-> << "Please include a question in your request." >>],
                          400)]
           ELSE IF missing(apiKey)
           THEN [received EXCEPT
                   !.pc = "responded",
                   !.response =
                     json([answer |-> FALLBACK_MESSAGE, offline |-> TRUE], 200)]
           ELSE [received EXCEPT !.pc = "awaitUpstream",
                                 !.upstreamCalls = 1,
                                 !.prompt = promptOf(theQuestion, theContext)]
  /\ lastEvent' = "POST"
  /\ UNCHANGED << docVars, uploadVars, askVars, tapVars, now >>

\* POST from the point the upstream fetch settles to its response
upstreamSettled(result) ==
  /\ server.pc = "awaitUpstream"
  /\ LET failure(message) == json([error |-> message], 500)
         errorPayload == IF result.parses THEN result.json ELSE Fields(<< >>)
     IN  server' =
           [server EXCEPT
              !.pc = "responded",
              !.upstream = result,
              !.response =
                IF result.kind = "throw" THEN failure(<< "fetch failed" >>)
                ELSE IF ~ok(result.status)
                THEN failure(IF Not(prop(errorPayload, "error"))
                             THEN << "Grok API returned HTTP ",
                                     ToString(result.status) >>
                             ELSE toJoinString(prop(errorPayload, "error")))
                ELSE IF ~result.parses
                THEN failure(<< "Unexpected end of JSON input" >>)
                ELSE json([answer |-> normalizeGrokResponse(result.json)], 200)]
  /\ lastEvent' = "upstreamSettled"
  /\ UNCHANGED << docVars, uploadVars, askVars, tapVars, now >>

\* ----------------------------------------------------------- specifications
DoubleClickRight == DoubleClick("right")

DoubleClickLeft == DoubleClick("left")

TouchRight == handleTouch("right")

TouchLeft == handleTouch("left")

ExtractTextSettles == \E file \in uploads : extractTextSettled(file)

FetchSettles ==
  \E i \in 1..Len(pending) : \E response \in Responses :
    fetchSettled(i, response)

\* the reader, the uploads and the Q&A client as the page offers them
Next ==
  \/ DoubleClickRight
  \/ DoubleClickLeft
  \/ PickFile
  \/ ExtractTextSettles
  \/ TypeQuestion
  \/ ClickSend
  \/ FetchSettles
  \/ closeChat

Spec == Init /\ [][Next]_vars

\* the gesture recognizer under a running clock
NextTouch ==
  \/ Tick
  \/ TouchRight
  \/ TouchLeft

SpecTouch == Init /\ [][NextTouch]_vars

\* the composer's form receiving submit events directly
NextForm ==
  \/ TypeQuestion
  \/ SubmitForm
  \/ FetchSettles
  \/ closeChat

SpecForm == Init /\ [][NextForm]_vars

\* the Q&A client alone, over a longer conversation
NextAsk ==
  \/ TypeQuestion
  \/ ClickSendThread
  \/ FetchSettles
  \/ closeChat

SpecAsk == Init /\ [][NextAsk]_vars

\* ... where every request to /api/ask eventually settles
SpecAskLive == SpecAsk /\ WF_vars(FetchSettles)

\* the Q&A client with time passing between its events
NextAskTimed ==
  \/ Tick
  \/ TypeQuestion
  \/ ClickSendThread
  \/ FetchSettles
  \/ closeChat

SpecAskTimed == Init /\ [][NextAskTimed]_vars

\* the characters of the segmenter's texts: an ordinary character, two kinds
\* of whitespace and the three terminators
Alphabet == {"a", " ", "\n", ".", "!", "?"}

\* every text of at most n characters
Texts(n) == UNION { [1..k -> Alphabet] : k \in 0..n }

HelloText ==
  << "H", "e", "l", "l", "o", " ", "w", "o", "r", "l", "d", ".", " ", "H",
     "o", "w", " ", "a", "r", "e", " ", "y", "o", "u", "?", " ", "F", "i",
     "n", "e", "!" >>

HelloName == << "h", ".", "t", "x", "t" >>

\* the .txt file with the given content
TextFile(text) ==
  [name   |-> IF text = HelloText THEN HelloName
              ELSE << "t", ".", "t", "x", "t" >>,
   type   |-> "text/plain",
   size   |-> Len(text),
   text   |-> text,
   throws |-> "none"]

\* the page right after handleFileChange took a text file
InitSegmenter ==
  /\ documentMeta =
       [title     |-> << "Reasoning Language Models: A Blueprint" >>,
        byline    |-> << "Maciej Besta", "Julia Barth", "Eric Schreiber",
                         "Ales Kubicek", "more" >>,
        sentences |-> Len(splitIntoSentences(DEFAULT_EXCERPT))]
  /\ sentences = splitIntoSentences(DEFAULT_EXCERPT)
  /\ revealed = 1
  /\ isParsing = TRUE
  /\ uploadError = "null"
  /\ question = << >>
  /\ chatOpen = FALSE
  /\ isAsking = FALSE
  /\ conversation = << >>
  /\ touchTracker = [left |-> 0, right |-> 0]
  /\ now = StartTime
  /\ pending = << >>
  /\ lastEvent = "handleFileChange"
  /\ lastCommand = "none"
  /\ lastTapAt = [s \in Sides |-> NoTap]
  /\ lastResponse = NoResponse
  /\ tapRun = [s \in Sides |-> 0]
  /\ server = [pc |-> "idle", request |-> [parses |-> FALSE, json |-> Undefined],
               apiKey |-> Undefined, upstreamCalls |-> 0, prompt |-> << >>,
               upstream |-> NoUpstream, response |-> NoAnswer]
  /\ \E text \in Texts(MaxText) \cup {HelloText} :
       uploads = {TextFile(text)}

\* the upload of one text and the reading of its sentences
NextSegmenter ==
  \/ ExtractTextSettles
  \/ DoubleClickRight
  \/ DoubleClickLeft

SpecSegmenter == InitSegmenter /\ [][NextSegmenter]_vars

ReceivePOST == \E request \in RequestBodies : \E apiKey \in ApiKeys :
  POST(request, apiKey)

UpstreamSettles == \E result \in UpstreamResults : upstreamSettled(result)

\* the backend alone, one request after the other
NextProxy ==
  \/ ReceivePOST
  \/ UpstreamSettles

SpecProxy == Init /\ [][NextProxy]_vars

\* ------------------------------------------------------------------ claims
\* the file whose name the current document carries
LoadedFile == CHOOSE f \in Files : f.name = documentMeta.filename

\* the sentences the segmenter produces for a file, before truncation
SegmentedCount(f) == Len(splitIntoSentences(trim(replaceWhitespace(f.text))))

\* an upload of f completes successfully: its text is extracted and holds at
\* least one sentence
Succeeds(f) == f.throws = "none" /\ SegmentedCount(f) >= 1

\* this step is the completion of the upload of f
Completes(f) ==
  /\ lastEvent' = "extractTextSettled"
  /\ f \in uploads
  /\ f \notin uploads'

\* C1: in every reachable state the reveal cursor satisfies
\* 1 <= revealed <= len(sentences), and it is 0 only if the document has no
\* sentences.
C1_CursorInRange ==
  /\ 1 <= revealed
  /\ revealed <= Len(sentences)
  /\ (revealed = 0 => Len(sentences) = 0)

\* an uploaded document revealed to its end, after a later upload failed
C1_Witness ==
  /\ "filename" \in DOMAIN documentMeta
  /\ uploadError # "null"
  /\ revealed = Len(sentences)
  /\ revealed > 1

\* C2: reveal sets the cursor to min(cursor + 1, N): one more below N,
\* unchanged at N.
C2_RevealIsMin ==
  [][lastEvent' = "doubleClickRight" =>
       /\ revealed' = Min(revealed + 1, Len(sentences))
       /\ (revealed < Len(sentences) => revealed' = revealed + 1)
       /\ (revealed = Len(sentences) => revealed' = revealed)]_vars

\* a reveal has just brought the cursor to the end of a longer document
C2_Witness ==
  /\ lastEvent = "doubleClickRight"
  /\ revealed = Len(sentences)
  /\ revealed > 1

\* C3: unreveal sets the cursor to max(cursor - 1, 1): one less above 1,
\* unchanged at 1, so the first sentence is never hidden.
C3_UnrevealIsMax ==
  [][lastEvent' = "doubleClickLeft" =>
       /\ revealed' = Max(revealed - 1, 1)
       /\ (revealed > 1 => revealed' = revealed - 1)
       /\ (revealed = 1 => revealed' = revealed)
       /\ revealed' >= 1]_vars

\* an unreveal has just left the cursor on the first sentence of a document
\* that has more sentences
C3_Witness ==
  /\ lastEvent = "doubleClickLeft"
  /\ revealed = 1
  /\ Len(sentences) > 1

\* C4: from an interior cursor c (1 < c < N), reveal followed at once by
\* unreveal, and unreveal followed at once by reveal, return the cursor to c.
\* The first gesture is the step taken; the second is the other gesture's
\* updater applied to the state the step produced.
C4_RoundTrip ==
  [][(1 < revealed /\ revealed < Len(sentences)) =>
       /\ (lastEvent' = "doubleClickRight" =>
             unrevealNext(revealed') = revealed)
       /\ (lastEvent' = "doubleClickLeft" =>
             revealNext(revealed', Len(sentences')) = revealed)]_vars

\* a reveal has just moved the cursor away from an interior value
C4_Witness ==
  /\ lastEvent = "doubleClickRight"
  /\ 3 <= revealed
  /\ revealed < Len(sentences)

\* C5: whenever an upload completes successfully the cursor is 1 in the
\* resulting state, whatever it was before.
C5_UploadResetsCursor ==
  [][\A f \in uploads : (Completes(f) /\ Succeeds(f)) => revealed' = 1]_vars

\* an upload has just replaced an uploaded document
C5_Witness ==
  /\ lastEvent = "extractTextSettled"
  /\ "filename" \in DOMAIN documentMeta
  /\ uploadError = "null"
  /\ revealed = 1
  /\ Len(sentences) = 1

\* C6: when an upload fails (no sentence, or extraction throws), sentences,
\* the document metadata, the cursor and the conversation stay as they were;
\* the only effects are the upload error message and the cleared parsing flag.
C6_FailedUploadKeepsState ==
  [][\A f \in uploads : (Completes(f) /\ ~Succeeds(f)) =>
       /\ UNCHANGED << sentences, documentMeta, revealed >>
       /\ UNCHANGED << conversation, question, chatOpen, isAsking, pending >>
       /\ UNCHANGED << touchTracker, now >>
       /\ uploadError' # "null"
       /\ isParsing' = FALSE]_vars

\* an upload has just failed while a conversation existed and the cursor was
\* past the first sentence
C6_Witness ==
  /\ lastEvent = "extractTextSettled"
  /\ uploadError # "null"
  /\ conversation # << >>
  /\ revealed > 1

\* C7: the document never has more than MAX_SENTENCES sentences, and after a
\* successful upload truncated is true iff the segmenter produced at least
\* MAX_SENTENCES sentences before truncation.
C7_CapAndTruncated ==
  /\ Len(sentences) <= MAX_SENTENCES
  /\ "filename" \in DOMAIN documentMeta =>
       documentMeta.truncated = (SegmentedCount(LoadedFile) >= MAX_SENTENCES)

\* a document whose text had more sentences than the cap is loaded
C7_Witness ==
  /\ "filename" \in DOMAIN documentMeta
  /\ SegmentedCount(LoadedFile) > MAX_SENTENCES
  /\ documentMeta.truncated

TouchEvent(side) == IF side = "right" THEN "touchRight" ELSE "touchLeft"

Other(side) == IF side = "right" THEN "left" ELSE "right"

\* the previous touchend on side happened less than the window before now
TappedWithinWindow(side) ==
  /\ lastTapAt[side] # NoTap
  /\ now - lastTapAt[side] < DOUBLE_TAP_WINDOW

\* C8: a tap on side S at time t emits that side's command (right -> reveal,
\* left -> unreveal) iff the previous tap on S happened less than
\* DOUBLE_TAP_WINDOW before t; the command moves the cursor as reveal or
\* unreveal does, and a tap that emits none leaves the cursor alone.
C8_DoubleTapIff ==
  [][\A side \in Sides : lastEvent' = TouchEvent(side) =>
       /\ lastCommand' \in {"none", CommandOf(side)}
       /\ lastCommand' = CommandOf(side) <=> TappedWithinWindow(side)
       /\ revealed' =
            IF ~TappedWithinWindow(side) THEN revealed
            ELSE IF side = "right"
                 THEN Min(revealed + 1, Len(sentences))
            ELSE Max(revealed - 1, 1)]_vars

\* the second of two right taps within the window has just revealed a
\* sentence
C8_Witness ==
  /\ lastEvent = "touchRight"
  /\ lastCommand = "reveal"
  /\ revealed = 2

\* C9: a tap on one side neither reads nor changes the other side's last-tap
\* time: it emits nothing unless its own side was tapped within the window,
\* however recently the other side was tapped.
C9_PerSideTracking ==
  [][\A side \in Sides : lastEvent' = TouchEvent(side) =>
       /\ touchTracker'[Other(side)] = touchTracker[Other(side)]
       /\ touchTracker'[side] = now
       /\ (~TappedWithinWindow(side) => lastCommand' = "none")]_vars

\* a right tap has just emitted nothing although the left side was tapped
\* within the window before it, and the left side's time is still recorded
C9_Witness ==
  /\ lastEvent = "touchRight"
  /\ lastCommand = "none"
  /\ lastTapAt["left"] # NoTap
  /\ lastTapAt["left"] < now
  /\ now - lastTapAt["left"] < DOUBLE_TAP_WINDOW
  /\ touchTracker["left"] = lastTapAt["left"]

\* C10: submitting an empty or whitespace-only question issues no request,
\* appends no Message, and leaves the conversation, the busy flag, the
\* overlay-open flag and the input text unchanged.
C10_BlankSubmitNoEffect ==
  [][(lastEvent' = "handleAsk" /\ \A i \in 1..Len(question) : IsSpace(question[i]))
       => UNCHANGED << conversation, pending, isAsking, chatOpen, question >>]_vars

\* a whitespace-only question has just been submitted, with the overlay
\* closed, and is still in the composer
C10_Witness ==
  /\ lastEvent = "handleAsk"
  /\ question # << >>
  /\ ~chatOpen
  /\ ~isAsking

\* a is a prefix of b
IsPrefix(a, b) == Len(a) <= Len(b) /\ SubSeq(b, 1, Len(a)) = a

\* C11: the conversation is append-only: in every step (submit, answer,
\* failure, reveal, unreveal, upload) the previous conversation is a prefix of
\* the next one.
C11_AppendOnly == [][IsPrefix(conversation, conversation')]_vars

\* an answer has just been appended behind its question, after an upload
\* failed and the cursor moved
C11_Witness ==
  /\ lastEvent = "fetchSettled"
  /\ Len(conversation) = 2
  /\ conversation[1].role = "user"
  /\ conversation[2].role = "assistant"
  /\ uploadError # "null"
  /\ revealed > 1

\* the position of a Message in a conversation, 0 if it is not there
IndexOf(messages, message) ==
  IF \E k \in 1..Len(messages) : messages[k] = message
  THEN CHOOSE k \in 1..Len(messages) : messages[k] = message
  ELSE 0

\* C12: an accepted question appends its user Message in the step that issues
\* its request; the assistant Message of a settled request is appended behind
\* that user Message; and the Messages stand in the order of their events,
\* timestamps never decreasing.
C12_UserBeforeAssistant ==
  [][/\ (lastEvent' = "handleAsk" /\ ~isBlank(question))
          => /\ Len(conversation') = Len(conversation) + 1
             /\ Len(pending') = Len(pending) + 1
             /\ conversation'[Len(conversation')].role = "user"
             /\ conversation'[Len(conversation')].content = trim(question)
             /\ pending'[Len(pending')].userMessage
                  = conversation'[Len(conversation')]
     /\ lastEvent' = "fetchSettled"
          => \E i \in 1..Len(pending) :
               /\ pending' = SubSeq(pending, 1, i - 1)
                               \o SubSeq(pending, i + 1, Len(pending))
               /\ IndexOf(conversation', pending[i].userMessage) > 0
               /\ Len(conversation') = Len(conversation) + 1
               /\ conversation'[Len(conversation')].role = "assistant"
               /\ IndexOf(conversation', pending[i].userMessage)
                    < Len(conversation')
     /\ \A k \in 1..(Len(conversation') - 1) :
          conversation'[k].timestamp <= conversation'[k + 1].timestamp]_vars

\* two questions asked and answered at three different times
C12_Witness ==
  /\ lastEvent = "fetchSettled"
  /\ Len(conversation) = 4
  /\ conversation[1].timestamp < conversation[2].timestamp
  /\ conversation[2].timestamp < conversation[3].timestamp
  /\ conversation[3].role = "user"
  /\ conversation[4].role = "assistant"

\* the Messages of a role in the conversation
MessagesOf(role) ==
  { k \in 1..Len(conversation) : conversation[k].role = role }

\* the request succeeded: a success status with a readable body
Succeeded(response) ==
  response.kind = "http" /\ response.ok /\ response.parses

\* the body carries a non-empty answer field
HasAnswer(body) == "answer" \in DOMAIN body /\ body.answer # ""

\* C13: every accepted question has one assistant Message or one request still
\* in flight, never both and never two; the Message of a settled request is
\* the returned answer, or the placeholder when the answer field is absent or
\* empty, on success, and begins with "I couldn't reach Grok 4.1." on any
\* failure; and, requests settling, every question is eventually answered.
C13_OneAssistantMessage ==
  /\ [](/\ Cardinality(MessagesOf("assistant")) + Len(pending)
            = Cardinality(MessagesOf("user"))
        /\ lastEvent = "fetchSettled" =>
             LET content == conversation[Len(conversation)].content
             IN  /\ conversation[Len(conversation)].role = "assistant"
                 /\ IF Succeeded(lastResponse)
                    THEN content =
                           IF HasAnswer(lastResponse.body)
                           THEN << lastResponse.body.answer >>
                           ELSE << "Grok 4.1 responded, but the payload was empty." >>
                    ELSE /\ Len(content) > 1
                         /\ content[1] = "I couldn't reach Grok 4.1. ")
  /\ [][lastEvent' = "fetchSettled" =>
          /\ Len(pending') = Len(pending) - 1
          /\ Len(conversation') = Len(conversation) + 1]_vars
  /\ \A n \in 1..MaxThread :
       (Cardinality(MessagesOf("user")) = n)
         ~> (Cardinality(MessagesOf("assistant")) = n)

\* the second question of a thread was answered with the failure message after
\* the first got the placeholder
C13_Witness ==
  /\ lastEvent = "fetchSettled"
  /\ Len(conversation) = 4
  /\ conversation[2].content
       = << "Grok 4.1 responded, but the payload was empty." >>
  /\ ~lastResponse.ok
  /\ conversation[4].content[1] = "I couldn't reach Grok 4.1. "
  /\ pending = << >>

\* C14: the busy flag is set exactly while a request is in flight: a non-blank
\* submission sets it, the settling of the request clears it whatever the
\* outcome was, and, requests settling, a set flag is eventually cleared.
C14_BusyWhileInFlight ==
  /\ [](/\ isAsking <=> pending # << >>
        /\ lastEvent = "fetchSettled" => ~isAsking)
  /\ [][(lastEvent' = "handleAsk" /\ ~isBlank(question)) => isAsking']_vars
  /\ isAsking ~> ~isAsking

\* the flag was set a second time and cleared by a request that threw
C14_Witness ==
  /\ lastEvent = "fetchSettled"
  /\ lastResponse.kind = "throw"
  /\ Len(conversation) = 4
  /\ ~isAsking
  /\ pending = << >>

\* C15: at most one Q&A request is in flight: while one is outstanding the
\* Send button is disabled, and no state has two pending requests.
C15_OneRequestInFlight ==
  /\ Len(pending) <= 1
  /\ pending # << >> => sendDisabled

\* a second question is in flight after the first was answered, and the next
\* one is typed already
C15_Witness ==
  /\ Len(conversation) = 3
  /\ Len(pending) = 1
  /\ trim(question) # << >>
  /\ sendDisabled

\* the request's body is a JSON value other than null
ReadableBody(request) == request.parses /\ request.json.t # "null"

\* the request's question is absent, empty or whitespace-only
BlankQuestion(request) ==
  /\ ReadableBody(request)
  /\ LET q == prop(request.json, "question")
     IN  \/ q.t = "undefined"
         \/ q.t = "string" /\ \A i \in 1..Len(q.s) : IsSpace(q.s[i])

\* the request's question is a string with a character that is not whitespace
NonBlankQuestion(request) ==
  /\ ReadableBody(request)
  /\ LET q == prop(request.json, "question")
     IN  q.t = "string" /\ \E i \in 1..Len(q.s) : ~IsSpace(q.s[i])

\* a provider credential is configured
CredentialConfigured(apiKey) == apiKey.t = "string" /\ apiKey.s # << >>

\* C16: a request whose question is absent, empty or whitespace-only is
\* answered with status 400 and the fixed error, and no upstream call is made,
\* with and without a credential.
C16_ValidationFirst ==
  (server.pc # "idle" /\ BlankQuestion(server.request))
    => /\ server.pc = "responded"
       /\ server.response.status = 400
       /\ server.response.body
            = [error |-> << "Please include a question in your request." >>]
       /\ server.upstreamCalls = 0

\* a whitespace-only question was refused although no credential is configured
C16_Witness ==
  /\ lastEvent = "POST"
  /\ ~CredentialConfigured(server.apiKey)
  /\ BlankQuestion(server.request)
  /\ prop(server.request.json, "question").t = "string"
  /\ prop(server.request.json, "question").s # << >>
  /\ server.response.status = 400

\* C17: without a credential a request with a non-blank question is answered
\* with status 200, the fixed placeholder and offline = true, and no upstream
\* call is made; with a credential no response carries the offline flag.
C17_OfflinePlaceholder ==
  /\ (/\ server.pc # "idle"
      /\ NonBlankQuestion(server.request)
      /\ ~CredentialConfigured(server.apiKey))
       => /\ server.pc = "responded"
          /\ server.response.status = 200
          /\ server.response.body
               = [answer |-> FALLBACK_MESSAGE, offline |-> TRUE]
          /\ server.upstreamCalls = 0
  /\ (server.pc = "responded" /\ CredentialConfigured(server.apiKey))
       => "offline" \notin DOMAIN server.response.body

\* a question with its excerpt got the placeholder where GROK_API_KEY is unset
C17_Witness ==
  /\ lastEvent = "POST"
  /\ server.apiKey.t = "undefined"
  /\ NonBlankQuestion(server.request)
  /\ prop(server.request.json, "context").t = "string"
  /\ server.response.body.offline

\* the upstream call returned a success status and a body that parses
UpstreamReadable(result) ==
  result.kind = "http" /\ result.status = 200 /\ result.parses

\* the three places of an upstream body the normalization looks at
MessageContent(data) ==
  prop(prop(first(prop(data, "choices")), "message"), "content")

OutputContent(data) == prop(first(prop(data, "output")), "content")

OutputText(data) == prop(data, "output_text")

\* the number of the first shape the body carries, 0 when it carries none
FirstShape(data) ==
  IF MessageContent(data).t = "string" THEN 1
  ELSE IF MessageContent(data).t = "array" THEN 2
  ELSE IF OutputContent(data).t = "array" THEN 3
  ELSE IF OutputText(data).t \in {"array", "string"} THEN 4
  ELSE 0

\* the text of an array element: of a string itself, of a chunk its text
\* field, the empty string when there is none
TextOf(element) ==
  IF element.t = "string" THEN element.s
  ELSE IF prop(element, "text").t = "string" THEN prop(element, "text").s
  ELSE << >>

\* the texts of the elements with one newline between neighbours
RECURSIVE NewlineJoined(_)
NewlineJoined(elements) ==
  IF elements = << >> THEN << >>
  ELSE IF Len(elements) = 1 THEN TextOf(elements[1])
  ELSE NewlineJoined(SubSeq(elements, 1, Len(elements) - 1))
         \o << "\n" >> \o TextOf(elements[Len(elements)])

\* the answer the normalization order prescribes for a body
Normalized(data) ==
  CASE FirstShape(data) = 1 -> MessageContent(data).s
    [] FirstShape(data) = 2 -> NewlineJoined(MessageContent(data).items)
    [] FirstShape(data) = 3 -> NewlineJoined(OutputContent(data).items)
    [] FirstShape(data) = 4 ->
         IF OutputText(data).t = "array"
         THEN NewlineJoined(OutputText(data).items)
         ELSE OutputText(data).s
    [] FirstShape(data) = 0 -> << "Grok responded without readable text." >>

\* C18: a readable upstream body is answered with status 200 and the first
\* shape it carries in the order message content string, message content
\* chunks, output content chunks, output_text, array elements joined with
\* newlines and a chunk without text counting as the empty string; a body
\* with no shape gets the sentinel.
C18_NormalizationOrder ==
  (server.pc = "responded" /\ UpstreamReadable(server.upstream))
    => /\ server.response.status = 200
       /\ server.response.body = [answer |-> Normalized(server.upstream.json)]

\* a body carrying message content chunks, output chunks and output_text at
\* once was answered with the message content chunks
C18_Witness ==
  /\ lastEvent = "upstreamSettled"
  /\ UpstreamReadable(server.upstream)
  /\ FirstShape(server.upstream.json) = 2
  /\ OutputContent(server.upstream.json).t = "array"
  /\ OutputText(server.upstream.json).t = "array"
  /\ server.response.body = [answer |-> << "A", "\n", "B" >>]

\* the response has one of the four documented forms
DocumentedForm(response) ==
  \/ response.status = 200 /\ DOMAIN response.body = {"answer"}
  \/ /\ response.status = 200
     /\ response.body = [answer |-> FALLBACK_MESSAGE, offline |-> TRUE]
  \/ response.status = 400 /\ DOMAIN response.body = {"error"}
  \/ response.status = 500 /\ DOMAIN response.body = {"error"}

\* C19: every request ends in a response of one of the four documented forms
\* after at most one upstream call, and no step's failure leaves the handler
\* as an unhandled fault.
C19_NoUnhandledFault ==
  /\ server.upstreamCalls <= 1
  /\ server.pc # "faulted"
  /\ server.pc = "responded" => DocumentedForm(server.response)

\* the statement of C20 as claimed: in a run of rapid taps on one side the
\* command is emitted on the taps at even positions only (the 2nd, the 4th).
C20_EveryOtherTap ==
  [][\A side \in Sides :
       (lastEvent' = TouchEvent(side) /\ tapRun'[side] < MaxRun)
         => (lastCommand' = CommandOf(side) <=> tapRun'[side] % 2 = 0)]_vars

\* C20: in a run of rapid taps on one side, each less than the window after
\* the one before, the command is emitted on every tap after the first (the
\* 2nd, the 3rd, the 4th), and the first tap of a run emits none.
C20_EveryTapAfterFirst ==
  [][\A side \in Sides : lastEvent' = TouchEvent(side)
       => (lastCommand' = CommandOf(side) <=> tapRun'[side] >= 2)]_vars

\* the third tap of a rapid run on the right has just revealed a second
\* sentence
C20_Witness ==
  /\ lastEvent = "touchRight"
  /\ tapRun["right"] = 3
  /\ lastCommand = "reveal"
  /\ revealed = 3

\* the statement of C21 as claimed: while an upload is parsing a second one
\* can still be started.
C21_SecondUploadCanStart == isParsing => ENABLED PickFile

\* C21: the file input is disabled while an upload is parsing, so no second
\* upload is started before the first has settled: at most one upload is in
\* flight, and isParsing is set exactly while it is.
C21_OneUploadInFlight ==
  /\ Cardinality(uploads) <= 1
  /\ isParsing <=> uploads # {}
  /\ uploads # {} => fileInputDisabled

\* a further upload is parsing in a document that an earlier upload loaded,
\* and the file input is disabled
C21_Witness ==
  /\ "filename" \in DOMAIN documentMeta
  /\ Cardinality(uploads) = 1
  /\ isParsing
  /\ fileInputDisabled
  /\ ~ENABLED PickFile

\* where a command of the side takes the cursor
CursorAfter(side) ==
  IF side = "right" THEN Min(revealed + 1, Len(sentences))
  ELSE Max(revealed - 1, 1)

\* a double-click on the side is possible and moves the cursor as its command
\* prescribes, and a tap on the side is possible
GestureEnabled(side) ==
  /\ ENABLED (DoubleClick(side) /\ revealed' = CursorAfter(side))
  /\ ENABLED handleTouch(side)

\* the statement of C22 as claimed: the gestures of both sides are enabled in
\* every reachable state, the overlay open or not.
C22_GesturesAlwaysEnabled == \A side \in Sides : GestureEnabled(side)

\* C22: the gestures of both sides are enabled in every state where the
\* answer overlay is closed, whatever is parsing, in flight or has failed;
\* while the overlay is open no gesture reaches the reading surface, and the
\* overlay can be closed.
C22_GesturesUnlessOverlay ==
  /\ ~chatOpen => \A side \in Sides : GestureEnabled(side)
  /\ chatOpen => /\ \A side \in Sides : /\ ~ENABLED DoubleClick(side)
                                        /\ ~ENABLED handleTouch(side)
                 /\ ENABLED closeChat

\* a double-click has just revealed a sentence while an upload is parsing and
\* a question is in flight, the overlay closed again
C22_Witness ==
  /\ lastEvent = "doubleClickRight"
  /\ revealed = 2
  /\ isParsing
  /\ isAsking
  /\ pending # << >>
  /\ ~chatOpen

\* the first n elements of a sequence of texts with one space between
\* neighbours
RECURSIVE SpaceJoined(_, _)
SpaceJoined(texts, n) ==
  IF n = 0 THEN << >>
  ELSE IF n = 1 THEN texts[1]
  ELSE SpaceJoined(texts, n - 1) \o << " " >> \o texts[n]

\* this step is an upload's start or completion, or a move of the cursor
DocumentEvent ==
  lastEvent' \in {"handleFileChange", "extractTextSettled",
                  "doubleClickRight", "doubleClickLeft"}

\* the answer of the oldest request in flight can be appended now
AnswerCanBeAppended ==
  ENABLED (/\ FetchSettles
           /\ Len(conversation') = Len(conversation) + 1
           /\ conversation'[Len(conversation')].role = "assistant")

\* C23: uploads, successful or failed, and moves of the cursor leave the
\* conversation and the requests in flight as they are; a request carries
\* the revealed prefix of its submission, joined with single spaces, until it
\* settles; and its answer or failure message can be appended in every state
\* it is in flight in, whatever the document and the cursor have become.
C23_NoStalenessCheck ==
  /\ [][/\ DocumentEvent => UNCHANGED << conversation, pending >>
        /\ (lastEvent' = "handleAsk" /\ ~isBlank(question))
             => pending'[Len(pending')].context
                  = SpaceJoined(sentences, revealed)
        /\ lastEvent' # "fetchSettled"
             => \A i \in 1..Len(pending) :
                  i <= Len(pending') /\ pending'[i] = pending[i]]_vars
  /\ [](pending # << >> => AnswerCanBeAppended)

\* an upload has just replaced the document under a question in flight, whose
\* context is a longer prefix of the previous document, and the answer can
\* still be appended
C23_Witness ==
  /\ lastEvent = "extractTextSettled"
  /\ "filename" \in DOMAIN documentMeta
  /\ Len(pending) = 1
  /\ pending[1].context = SpaceJoined(splitIntoSentences(DEFAULT_EXCERPT), 2)
  /\ pending[1].context # join(revealedSentences)
  /\ Len(conversation) = 1
  /\ AnswerCanBeAppended

\* a text without its leading characters of a class
DropLeading(text, class) ==
  SubSeq(text, PrefixLen(text, class) + 1, Len(text))

\* a text without its whitespace
Squeeze(text) == SelectSeq(text, LAMBDA c : ~IsSpace(c))

\* the elements of a sequence of texts one after the other
RECURSIVE Flatten(_)
Flatten(texts) ==
  IF texts = << >> THEN << >> ELSE texts[1] \o Flatten(Tail(texts))

\* the text holds nothing a sentence could be made of: between its leading
\* and trailing whitespace there are terminators only
NoSentence(text) ==
  \A i \in 1..Len(trim(text)) : IsTerminator(trim(text)[i])

\* result is a segmentation of text: no element is empty or begins or ends
\* with whitespace; the elements, one after the other, are the text from its
\* first sentence on, whitespace aside; and there is no element exactly when
\* the text holds no sentence
WellSegmented(text, result) ==
  /\ \A i \in 1..Len(result) :
       /\ result[i] # << >>
       /\ ~IsSpace(result[i][1])
       /\ ~IsSpace(result[i][Len(result[i])])
  /\ Squeeze(Flatten(result))
       = Squeeze(DropLeading(DropLeading(text, "\\s"), "[.!?]"))
  /\ result = << >> <=> NoSentence(text)

HelloSentences ==
  << << "H", "e", "l", "l", "o", " ", "w", "o", "r", "l", "d", "." >>,
     << "H", "o", "w", " ", "a", "r", "e", " ", "y", "o", "u", "?" >>,
     << "F", "i", "n", "e", "!" >> >>

\* the document on the page is the one uploaded from the Hello text
HelloLoaded ==
  "filename" \in DOMAIN documentMeta /\ documentMeta.filename = HelloName

\* C24: for every text over ordinary characters, whitespace and terminators
\* the segmenter returns non-empty elements without leading or trailing
\* whitespace, in input order, and none when the text holds no sentence; an
\* upload loads exactly these; and the Hello text gives its three sentences,
\* of which the first is visible after the upload, all three after two
\* reveals, and a third reveal changes nothing.
C24_Segmenter ==
  /\ [](\A f \in uploads : WellSegmented(f.text, splitIntoSentences(f.text)))
  /\ [](HelloLoaded => /\ sentences = HelloSentences
                       /\ revealedSentences = SubSeq(HelloSentences, 1, revealed))
  /\ [][/\ \A f \in uploads : Completes(f) =>
             IF NoSentence(f.text)
             THEN /\ sentences' = sentences
                  /\ uploadError' = "I couldn't find readable sentences in that file."
             ELSE /\ sentences' = splitIntoSentences(f.text)
                  /\ revealed' = 1
        /\ (lastEvent' = "doubleClickRight" /\ HelloLoaded)
             => revealed' = IF revealed = 3 THEN 3 ELSE revealed + 1]_vars

\* the third reveal in the Hello document has left all three sentences visible
C24_Witness ==
  /\ lastEvent = "doubleClickRight"
  /\ HelloLoaded
  /\ revealed = 3
  /\ revealedSentences = HelloSentences
====
